---- MODULE Spec2Model ----
(***************************************************************************)
(* Model of setup.py of SageAttention: the build-time resolution of the    *)
(* target compute capabilities, the nvcc version gating, the composition   *)
(* of the -gencode flags and the construction of the extension modules.    *)
(*                                                                         *)
(* Python strings that the script takes apart (the TORCH_CUDA_ARCH_LIST    *)
(* value, capability strings, the nvcc banner, version strings) are        *)
(* sequences of one-character strings, so that split, strip, startswith,   *)
(* endswith, "in" and f"{major}.{minor}" are computed as Python computes   *)
(* them.  A compiler flag is the tuple of the pieces its f-string joins.   *)
(***************************************************************************)
EXTENDS Integers, Sequences, FiniteSets, TLC

(* ------------------------------ bounds --------------------------------- *)
\* longest TORCH_CUDA_ARCH_LIST, in tokens
MaxTokens == 2
\* largest number of attached GPUs
MaxDevices == 2

(* ------------------------- string primitives --------------------------- *)
DigitChars == <<"0", "1", "2", "3", "4", "5", "6", "7", "8", "9">>

IsDigit(c) == \E d \in 1..10 : DigitChars[d] = c

DigitVal(c) == (CHOOSE d \in 1..10 : DigitChars[d] = c) - 1

\* str(n) for a natural number, as the f-string of line 96 formats it
RECURSIVE IntToStr(_)
IntToStr(n) == IF n < 10 THEN <<DigitChars[n + 1]>>
               ELSE IntToStr(n \div 10) \o <<DigitChars[(n % 10) + 1]>>

\* int(s) for a string of decimal digits
RECURSIVE StrToInt(_)
StrToInt(s) == IF Len(s) = 0 THEN 0
               ELSE 10 * StrToInt(SubSeq(s, 1, Len(s) - 1)) + DigitVal(s[Len(s)])

IsWhitespace(c) == c = " "

\* str.replace(old, new) for one-character old and new
Replace(s, old, new) == [i \in 1..Len(s) |-> IF s[i] = old THEN new ELSE s[i]]

\* str.split(): split on runs of whitespace, no empty pieces
RECURSIVE SplitAcc(_, _, _, _)
SplitAcc(s, i, cur, out) ==
    IF i > Len(s)
    THEN IF cur = <<>> THEN out ELSE Append(out, cur)
    ELSE IF IsWhitespace(s[i])
         THEN SplitAcc(s, i + 1, <<>>, IF cur = <<>> THEN out ELSE Append(out, cur))
         ELSE SplitAcc(s, i + 1, Append(cur, s[i]), out)

Split(s) == SplitAcc(s, 1, <<>>, <<>>)

\* str.split(sep) for a one-character separator: empty pieces are kept
RECURSIVE SplitOnAcc(_, _, _, _, _)
SplitOnAcc(s, sep, i, cur, out) ==
    IF i > Len(s) THEN Append(out, cur)
    ELSE IF s[i] = sep
         THEN SplitOnAcc(s, sep, i + 1, <<>>, Append(out, cur))
         ELSE SplitOnAcc(s, sep, i + 1, Append(cur, s[i]), out)

SplitOn(s, sep) == SplitOnAcc(s, sep, 1, <<>>, <<>>)

\* str.strip()
RECURSIVE Strip(_)
Strip(s) == IF Len(s) = 0 THEN s
            ELSE IF IsWhitespace(s[1]) THEN Strip(Tail(s))
            ELSE IF IsWhitespace(s[Len(s)]) THEN Strip(SubSeq(s, 1, Len(s) - 1))
            ELSE s

\* str.startswith / str.endswith
StartsWith(s, p) == Len(s) >= Len(p) /\ SubSeq(s, 1, Len(p)) = p

EndsWith(s, p) == Len(s) >= Len(p) /\ SubSeq(s, Len(s) - Len(p) + 1, Len(s)) = p

Range(f) == {f[i] : i \in DOMAIN f}

(* ------------------------- program constants --------------------------- *)
Cap80 == <<"8", ".", "0">>
Cap86 == <<"8", ".", "6">>
Cap89 == <<"8", ".", "9">>
Cap90 == <<"9", ".", "0">>
Cap120 == <<"1", "2", ".", "0">>
PTXSuffix == <<"+", "P", "T", "X">>

SUPPORTED_ARCHS == {Cap80, Cap86, Cap89, Cap90, Cap120}

\* the smallest major tier that is not skipped (line 93)
MinMajor == 8

BaseCxxFlags ==
    << <<"-g">>, <<"-O3">>, <<"-fopenmp">>, <<"-lgomp">>, <<"-std=c++17">>,
       <<"-DENABLE_BF16">> >>

BaseNvccFlags ==
    << <<"-O3">>, <<"-std=c++17">>, <<"-U__CUDA_NO_HALF_OPERATORS__">>,
       <<"-U__CUDA_NO_HALF_CONVERSIONS__">>, <<"--use_fast_math">>,
       <<"--threads=8">>, <<"-Xptxas=-v">>, <<"-diag-suppress=174">> >>

AbiFlag(abi) == <<"-D_GLIBCXX_USE_CXX11_ABI=", IF abi = 1 THEN "1" ELSE "0">>

\* value of the loop variable num before its first assignment
Unbound == "<unbound>"

(* ------------------------------ inputs --------------------------------- *)
Cap87 == <<"8", ".", "7">>

\* tokens a TORCH_CUDA_ARCH_LIST value is made of: the supported ones, one
\* with the +PTX suffix, an unsupported one and the empty token
OverrideTokens == SUPPORTED_ARCHS \cup {Cap90 \o PTXSuffix, Cap87, <<>>}

Delimiters == {<<";">>, <<" ">>, <<";", " ">>}

RECURSIVE Join(_, _)
Join(toks, d) == IF Len(toks) = 0 THEN <<>>
                 ELSE IF Len(toks) = 1 THEN toks[1]
                 ELSE toks[1] \o d \o Join(Tail(toks), d)

OverrideStrings ==
    {Join(toks, d) : toks \in UNION {[1..n -> OverrideTokens] : n \in 0..MaxTokens},
                     d \in Delimiters}

\* os.environ.get: None (unset) or a string, possibly empty
EnvValues == {[present |-> FALSE, val |-> <<>>]}
             \cup {[present |-> TRUE, val |-> s] : s \in OverrideStrings}

\* (major, minor) pairs torch.cuda.get_device_capability can report
DeviceCaps == {<<7, 5>>, <<8, 0>>, <<8, 7>>, <<8, 9>>, <<9, 0>>, <<10, 0>>, <<12, 0>>}

DeviceLists == UNION {[1..n -> DeviceCaps] : n \in 0..MaxDevices}

WordTools == <<"t", "o", "o", "l", "s", ",">>
WordRelease == <<"r", "e", "l", "e", "a", "s", "e">>

ReleaseStrings ==
    { <<"1", "1", ".", "8">>, <<"1", "2", ".", "0">>, <<"1", "2", ".", "2">>,
      <<"1", "2", ".", "3">>, <<"1", "2", ".", "4">>, <<"1", "2", ".", "5">>,
      <<"1", "2", ".", "8">>, <<"1", "3", ".", "0">> }

\* the words of "... tools, release X.Y, VX.Y.Z" as nvcc -V prints them
Banner(v) == <<WordTools, WordRelease, v \o <<",">>, <<"V">> \o v \o <<".", "1">> >>

\* outputs of `nvcc -V`: well-formed banners, one without the word
\* "release", one that ends with it, one whose version token is not a version
NvccOutputs == {Banner(v) : v \in ReleaseStrings}
               \cup { <<WordTools>>, <<WordTools, WordRelease>>,
                      <<WordTools, WordRelease, <<"x", ",">> >> }

(* ---------------------- packaging.version.Version ---------------------- *)
IsDigits(s) == Len(s) > 0 /\ \A i \in 1..Len(s) : IsDigit(s[i])

\* the strings this model parses: dot-separated groups of digits
IsVersionString(s) == LET parts == SplitOn(s, ".")
                      IN \A i \in 1..Len(parts) : IsDigits(parts[i])

\* parse(s): the release tuple
parse(s) == LET parts == SplitOn(s, ".")
            IN [i \in 1..Len(parts) |-> StrToInt(parts[i])]

\* Version compares release tuples with the trailing zeros removed
RECURSIVE StripTrailingZeros(_)
StripTrailingZeros(t) == IF Len(t) > 0 /\ t[Len(t)] = 0
                         THEN StripTrailingZeros(SubSeq(t, 1, Len(t) - 1))
                         ELSE t

\* Python's tuple "<"
RECURSIVE TupleLess(_, _)
TupleLess(a, b) == IF Len(b) = 0 THEN FALSE
                   ELSE IF Len(a) = 0 THEN TRUE
                   ELSE IF a[1] # b[1] THEN a[1] < b[1]
                   ELSE TupleLess(Tail(a), Tail(b))

VersionLess(a, b) == TupleLess(StripTrailingZeros(a), StripTrailingZeros(b))

Version(s) == parse(s)

(* --------------------------- get_nvcc_cuda_version --------------------- *)
\* list.index(x): 0 when x is not in the list (Python raises ValueError)
IndexOf(words, w) == IF \E i \in 1..Len(words) : words[i] = w
                     THEN CHOOSE i \in 1..Len(words) :
                              words[i] = w /\ \A j \in 1..(i - 1) : words[j] # w
                     ELSE 0

\* the result of get_nvcc_cuda_version on the words of the nvcc output:
\* the exception it raises ("none" when it returns) and the version
get_nvcc_cuda_version(output) ==
    LET at == IndexOf(output, WordRelease)
        release_idx == at + 1
    IN IF at = 0 THEN [error |-> "ValueError", version |-> <<>>]
       ELSE IF release_idx > Len(output) THEN [error |-> "IndexError", version |-> <<>>]
       ELSE LET token == SplitOn(output[release_idx], ",")[1]
            IN IF IsVersionString(token)
               THEN [error |-> "none", version |-> parse(token)]
               ELSE [error |-> "InvalidVersion", version |-> <<>>]

(* --------------------------- compute_capabilities ---------------------- *)
\* `if torch_cuda_arch_list:` - neither None nor the empty string
Truthy(env) == env.present /\ Len(env.val) > 0

\* line 82: the test that admits an override token
AcceptsToken(arch) == arch \in SUPPORTED_ARCHS

\* lines 80-85: the capabilities an override string contributes
ParseOverride(s) ==
    LET toks == Split(Replace(s, ";", " "))
    IN {arch \in {Strip(toks[i]) : i \in 1..Len(toks)} : AcceptsToken(arch)}

\* lines 84-85: the tokens warned about
OverrideWarnings(s) ==
    LET toks == Split(Replace(s, ";", " "))
    IN {arch \in {Strip(toks[i]) : i \in 1..Len(toks)} : ~AcceptsToken(arch)}

\* line 93 with the comparison off by one
SkipsDevice_Mutant(major) == major <= MinMajor

\* line 93: the test that skips a device
SkipsDevice(major) == major < MinMajor

\* line 96: f"{major}.{minor}"
FormatCapability(d) == IntToStr(d[1]) \o <<".">> \o IntToStr(d[2])

\* lines 91-96: the capabilities the attached devices contribute
DeviceCapabilities(devs) ==
    {FormatCapability(devs[i]) : i \in {j \in 1..Len(devs) : ~SkipsDevice(devs[j][1])}}

\* lines 93-94: the indexes of the devices warned about
DeviceWarnings(devs) == {i \in 1..Len(devs) : SkipsDevice(devs[i][1])}

(* ----------------------------- validation ------------------------------ *)
AnyStartsWith(caps, p) == \E cc \in caps : StartsWith(cc, p)

\* lines 109-119 with the thresholds of 8.9 and 9.0 exchanged
ValidateVersion_Mutant(ver, caps) ==
    IF VersionLess(ver, Version(<<"1", "2", ".", "0">>)) THEN "CUDA 12.0 required"
    ELSE IF VersionLess(ver, Version(<<"1", "2", ".", "3">>)) /\ AnyStartsWith(caps, Cap89)
         THEN "CUDA 12.4 required for 8.9"
    ELSE IF VersionLess(ver, Version(<<"1", "2", ".", "4">>)) /\ AnyStartsWith(caps, Cap90)
         THEN "CUDA 12.3 required for 9.0"
    ELSE IF VersionLess(ver, Version(<<"1", "2", ".", "8">>)) /\ AnyStartsWith(caps, Cap120)
         THEN "CUDA 12.8 required for 12.0"
    ELSE "none"

\* lines 109-119: the error the version checks raise, "none" when all pass
ValidateVersion(ver, caps) ==
    IF VersionLess(ver, Version(<<"1", "2", ".", "0">>)) THEN "CUDA 12.0 required"
    ELSE IF VersionLess(ver, Version(<<"1", "2", ".", "4">>)) /\ AnyStartsWith(caps, Cap89)
         THEN "CUDA 12.4 required for 8.9"
    ELSE IF VersionLess(ver, Version(<<"1", "2", ".", "3">>)) /\ AnyStartsWith(caps, Cap90)
         THEN "CUDA 12.3 required for 9.0"
    ELSE IF VersionLess(ver, Version(<<"1", "2", ".", "8">>)) /\ AnyStartsWith(caps, Cap120)
         THEN "CUDA 12.8 required for 12.0"
    ELSE "none"

(* ---------------------------- flag composition ------------------------- *)
\* lines 123-137: the value of num after the if/elif chain; a capability
\* that matches no branch leaves num as it was
ArchNum(capability, prev) ==
    IF StartsWith(capability, Cap80) THEN "80"
    ELSE IF StartsWith(capability, Cap86) THEN "86"
    ELSE IF StartsWith(capability, Cap89) THEN "89"
    ELSE IF StartsWith(capability, Cap90) THEN "90a"
    ELSE IF StartsWith(capability, Cap120) THEN "120"
    ELSE prev

\* lines 123-137: which HAS_SM* flag the chain sets, "" when none
ArchTier(capability) ==
    IF StartsWith(capability, Cap80) THEN "80"
    ELSE IF StartsWith(capability, Cap86) THEN "86"
    ELSE IF StartsWith(capability, Cap89) THEN "89"
    ELSE IF StartsWith(capability, Cap90) THEN "90"
    ELSE IF StartsWith(capability, Cap120) THEN "120"
    ELSE ""

\* line 138
GencodeSm(n) == << <<"-gencode">>, <<"arch=compute_", n, ",code=sm_", n>> >>

\* line 140
GencodePtx(n) == << <<"-gencode">>, <<"arch=compute_", n, ",code=compute_", n>> >>

\* lines 138-140: the flags one iteration appends
CapabilityFlags(capability, n) ==
    GencodeSm(n) \o (IF EndsWith(capability, PTXSuffix) THEN GencodePtx(n) ELSE <<>>)

(* ------------------------------ ext_modules ---------------------------- *)
CUDAExtension(name, sources, cxx, nvcc, link) ==
    [name |-> name, sources |-> sources,
     extra_compile_args |-> [cxx |-> cxx, nvcc |-> nvcc],
     extra_link_args |-> link]

\* line 144
IncludesSm80(h80, h86, h89, h90, h120) == h80 \/ h86 \/ h89 \/ h90 \/ h120

\* line 158 without the HAS_SM120 disjunct
IncludesSm89_Mutant(h89, h120) == h89

\* line 158
IncludesSm89(h89, h120) == h89 \/ h120

\* line 172
IncludesSm90(h90) == h90

\* lines 142-196
BuildExtModules(h80, h86, h89, h90, h120, cxx, nvcc) ==
    (IF IncludesSm80(h80, h86, h89, h90, h120)
     THEN <<CUDAExtension("sageattention._qattn_sm80",
                          <<"csrc/qattn/pybind_sm80.cpp",
                            "csrc/qattn/qk_int_sv_f16_cuda_sm80.cu">>,
                          cxx, nvcc, <<>>)>>
     ELSE <<>>)
    \o (IF IncludesSm89(h89, h120)
        THEN <<CUDAExtension("sageattention._qattn_sm89",
                             <<"csrc/qattn/pybind_sm89.cpp",
                               "csrc/qattn/qk_int_sv_f8_cuda_sm89.cu">>,
                             cxx, nvcc, <<>>)>>
        ELSE <<>>)
    \o (IF IncludesSm90(h90)
        THEN <<CUDAExtension("sageattention._qattn_sm90",
                             <<"csrc/qattn/pybind_sm90.cpp",
                               "csrc/qattn/qk_int_sv_f8_cuda_sm90.cu">>,
                             cxx, nvcc, <<"-lcuda">>)>>
        ELSE <<>>)
    \o <<CUDAExtension("sageattention._fused",
                       <<"csrc/fused/pybind.cpp", "csrc/fused/fused.cu">>,
                       cxx, nvcc, <<>>)>>

(* ------------------------------- state --------------------------------- *)
VARIABLES
    pc,                    \* the statement the script is about to run
    ABI,                   \* line 49; -1 before it is computed
    CUDA_HOME,             \* torch's CUDA_HOME: "None" or a path
    CXX_FLAGS,
    NVCC_FLAGS,
    torch_cuda_arch_list,  \* line 76: [present, val]
    devices,               \* [queried, caps]: what torch.cuda reported, once asked
    strategy,              \* which of the messages of lines 78, 90, 99 was printed
    warned,                \* the tokens / device indexes warnings.warn was called for
    compute_capabilities,
    nvcc_cuda_version,     \* release tuple; <<>> before line 102
    HAS_SM80, HAS_SM86, HAS_SM89, HAS_SM90, HAS_SM120,
    num,                   \* the loop's architecture code
    pending,               \* capabilities the loop of line 122 has not visited yet
    ext_modules,
    setup_call,            \* [called, ext_modules]: what setup() received
    error                  \* the exception that ended the script, "none" otherwise

vars == <<pc, ABI, CUDA_HOME, CXX_FLAGS, NVCC_FLAGS, torch_cuda_arch_list, devices,
          strategy, warned, compute_capabilities, nvcc_cuda_version,
          HAS_SM80, HAS_SM86, HAS_SM89, HAS_SM90, HAS_SM120, num, pending,
          ext_modules, setup_call, error>>

flagVars == <<HAS_SM80, HAS_SM86, HAS_SM89, HAS_SM90, HAS_SM120, num, pending, NVCC_FLAGS>>

inputVars == <<ABI, CUDA_HOME, torch_cuda_arch_list, devices>>

capVars == <<strategy, warned, compute_capabilities>>

\* lines 27-47 and 73: the module-level initialisations
Init ==
    /\ pc = "import"
    /\ ABI = -1
    /\ CUDA_HOME = "unresolved"
    /\ CXX_FLAGS = BaseCxxFlags
    /\ NVCC_FLAGS = BaseNvccFlags
    /\ torch_cuda_arch_list = [present |-> FALSE, val |-> <<>>]
    /\ devices = [queried |-> FALSE, caps |-> <<>>]
    /\ strategy = "none"
    /\ warned = {}
    /\ compute_capabilities = {}
    /\ nvcc_cuda_version = <<>>
    /\ HAS_SM80 = FALSE /\ HAS_SM86 = FALSE /\ HAS_SM89 = FALSE
    /\ HAS_SM90 = FALSE /\ HAS_SM120 = FALSE
    /\ num = Unbound
    /\ pending = {}
    /\ ext_modules = <<>>
    /\ setup_call = [called |-> FALSE, ext_modules |-> <<>>]
    /\ error = "none"

\* raise: the script ends with the exception
Raise(e) == /\ pc' = "failed"
            /\ error' = e

(* ------------------------------- actions ------------------------------- *)
\* lines 24-25, 49-51: torch is imported, the ABI flag is appended
ImportTorch ==
    /\ pc = "import"
    /\ \E abi \in {0, 1}, home \in {"None", "/usr/local/cuda"} :
          /\ ABI' = abi
          /\ CUDA_HOME' = home
          /\ CXX_FLAGS' = CXX_FLAGS \o <<AbiFlag(abi)>>
          /\ NVCC_FLAGS' = NVCC_FLAGS \o <<AbiFlag(abi)>>
    /\ pc' = "cuda_home"
    /\ UNCHANGED <<torch_cuda_arch_list, devices, capVars, nvcc_cuda_version,
                   HAS_SM80, HAS_SM86, HAS_SM89, HAS_SM90, HAS_SM120, num, pending,
                   ext_modules, setup_call, error>>

\* line 53: `CUDA_HOME is None`
CudaHomeMissing_Mutant(home) == FALSE

CudaHomeMissing(home) == home = "None"

\* lines 53-55
CheckCudaHome ==
    /\ pc = "cuda_home"
    /\ IF CudaHomeMissing(CUDA_HOME)
       THEN Raise("Cannot find CUDA_HOME")
       ELSE pc' = "environ" /\ UNCHANGED error
    /\ UNCHANGED <<inputVars, CXX_FLAGS, flagVars, capVars, nvcc_cuda_version,
                   ext_modules, setup_call>>

\* line 76
ReadEnviron ==
    /\ pc = "environ"
    /\ \E env \in EnvValues : torch_cuda_arch_list' = env
    /\ pc' = "select"
    /\ UNCHANGED <<ABI, CUDA_HOME, devices, CXX_FLAGS, flagVars, capVars,
                   nvcc_cuda_version, ext_modules, setup_call, error>>

\* lines 77-85
ParseOverrideList ==
    /\ pc = "select"
    /\ Truthy(torch_cuda_arch_list)
    /\ strategy' = "override"
    /\ compute_capabilities' = compute_capabilities \cup ParseOverride(torch_cuda_arch_list.val)
    /\ warned' = OverrideWarnings(torch_cuda_arch_list.val)
    /\ pc' = "probe"
    /\ UNCHANGED <<inputVars, CXX_FLAGS, flagVars, nvcc_cuda_version,
                   ext_modules, setup_call, error>>

\* lines 86-88
QueryDeviceCount ==
    /\ pc = "select"
    /\ ~Truthy(torch_cuda_arch_list)
    /\ \E devs \in DeviceLists : devices' = [queried |-> TRUE, caps |-> devs]
    /\ pc' = "devices"
    /\ UNCHANGED <<ABI, CUDA_HOME, torch_cuda_arch_list, CXX_FLAGS, flagVars, capVars,
                   nvcc_cuda_version, ext_modules, setup_call, error>>

\* lines 89-96
EnumerateDevices ==
    /\ pc = "devices"
    /\ Len(devices.caps) > 0
    /\ strategy' = "devices"
    /\ compute_capabilities' = compute_capabilities \cup DeviceCapabilities(devices.caps)
    /\ warned' = DeviceWarnings(devices.caps)
    /\ pc' = "probe"
    /\ UNCHANGED <<inputVars, CXX_FLAGS, flagVars, nvcc_cuda_version,
                   ext_modules, setup_call, error>>

\* lines 97-100
StaticFallback ==
    /\ pc = "devices"
    /\ ~(Len(devices.caps) > 0)
    /\ strategy' = "fallback"
    /\ compute_capabilities' = SUPPORTED_ARCHS
    /\ pc' = "probe"
    /\ UNCHANGED <<inputVars, CXX_FLAGS, flagVars, warned, nvcc_cuda_version,
                   ext_modules, setup_call, error>>

\* line 102 (lines 57-67): nvcc -V either cannot be run or prints its banner
ProbeNvcc ==
    /\ pc = "probe"
    /\ \/ /\ Raise("CalledProcessError")
          /\ UNCHANGED nvcc_cuda_version
       \/ \E output \in NvccOutputs :
             LET r == get_nvcc_cuda_version(output)
             IN IF r.error # "none"
                THEN Raise(r.error) /\ UNCHANGED nvcc_cuda_version
                ELSE /\ nvcc_cuda_version' = r.version
                     /\ pc' = "check_empty"
                     /\ UNCHANGED error
    /\ UNCHANGED <<inputVars, CXX_FLAGS, flagVars, capVars, ext_modules, setup_call>>

\* lines 103-106 without the raise
EmptyCheck_Mutant(caps) == "none"

\* lines 103-106: what follows the test of the resolved set
EmptyCheck(caps) == IF caps = {} THEN "No GPUs found" ELSE "none"

CheckEmpty ==
    /\ pc = "check_empty"
    /\ IF EmptyCheck(compute_capabilities) # "none"
       THEN Raise(EmptyCheck(compute_capabilities))
       ELSE pc' = "validate" /\ UNCHANGED error
    /\ UNCHANGED <<inputVars, CXX_FLAGS, flagVars, capVars, nvcc_cuda_version,
                   ext_modules, setup_call>>

\* lines 108-119; on success the loop of line 122 starts over the whole set
Validate ==
    /\ pc = "validate"
    /\ IF ValidateVersion(nvcc_cuda_version, compute_capabilities) # "none"
       THEN /\ Raise(ValidateVersion(nvcc_cuda_version, compute_capabilities))
            /\ UNCHANGED pending
       ELSE /\ pc' = "flags"
            /\ pending' = compute_capabilities
            /\ UNCHANGED error
    /\ UNCHANGED <<inputVars, CXX_FLAGS, NVCC_FLAGS, capVars, nvcc_cuda_version,
                   HAS_SM80, HAS_SM86, HAS_SM89, HAS_SM90, HAS_SM120, num,
                   ext_modules, setup_call>>

\* lines 122-140: one iteration; a set of strings is visited in an order that
\* depends on the interpreter's string hashing, so any unvisited element may
\* come next.  Reading num at line 138 before any branch assigned it raises
\* NameError.
ComposeFlags ==
    /\ pc = "flags"
    /\ \E capability \in pending :
          LET tier == ArchTier(capability)
              n == ArchNum(capability, num)
          IN /\ HAS_SM80' = (HAS_SM80 \/ tier = "80")
             /\ HAS_SM86' = (HAS_SM86 \/ tier = "86")
             /\ HAS_SM89' = (HAS_SM89 \/ tier = "89")
             /\ HAS_SM90' = (HAS_SM90 \/ tier = "90")
             /\ HAS_SM120' = (HAS_SM120 \/ tier = "120")
             /\ num' = n
             /\ pending' = pending \ {capability}
             /\ IF n = Unbound
                THEN Raise("NameError") /\ UNCHANGED NVCC_FLAGS
                ELSE /\ NVCC_FLAGS' = NVCC_FLAGS \o CapabilityFlags(capability, n)
                     /\ UNCHANGED <<pc, error>>
    /\ UNCHANGED <<inputVars, CXX_FLAGS, capVars, nvcc_cuda_version,
                   ext_modules, setup_call>>

\* lines 142-196, once the loop is exhausted
BuildModules ==
    /\ pc = "flags"
    /\ pending = {}
    /\ ext_modules' = ext_modules \o BuildExtModules(HAS_SM80, HAS_SM86, HAS_SM89,
                                                     HAS_SM90, HAS_SM120,
                                                     CXX_FLAGS, NVCC_FLAGS)
    /\ pc' = "setup"
    /\ UNCHANGED <<inputVars, CXX_FLAGS, flagVars, capVars, nvcc_cuda_version,
                   setup_call, error>>

\* lines 198-211
CallSetup ==
    /\ pc = "setup"
    /\ setup_call' = [called |-> TRUE, ext_modules |-> ext_modules]
    /\ pc' = "done"
    /\ UNCHANGED <<inputVars, CXX_FLAGS, flagVars, capVars, nvcc_cuda_version,
                   ext_modules, error>>

Next ==
    \/ ImportTorch
    \/ CheckCudaHome
    \/ ReadEnviron
    \/ ParseOverrideList
    \/ QueryDeviceCount
    \/ EnumerateDevices
    \/ StaticFallback
    \/ ProbeNvcc
    \/ CheckEmpty
    \/ Validate
    \/ ComposeFlags
    \/ BuildModules
    \/ CallSetup

Spec == Init /\ [][Next]_vars

TypeOK ==
    /\ pc \in {"import", "cuda_home", "environ", "select", "devices", "probe",
               "check_empty", "validate", "flags", "setup", "done", "failed"}
    /\ ABI \in {-1, 0, 1}
    /\ compute_capabilities \subseteq (SUPPORTED_ARCHS \cup {FormatCapability(d) : d \in DeviceCaps})
    /\ pending \subseteq compute_capabilities
    /\ (error # "none") <=> (pc = "failed")

(* ------------------------ vocabulary of the claims ---------------------- *)
\* the tokens of the override string, as the operator reads them
OverrideTokenSet == Range(Split(Replace(torch_cuda_arch_list.val, ";", " ")))

OverrideGiven == torch_cuda_arch_list.present /\ torch_cuda_arch_list.val # <<>>

Resolved == strategy # "none"

\* the script got past the version checks
Validated == pc \in {"flags", "setup", "done"} \/ error = "NameError"

\* a build plan exists
Planned == pc \in {"setup", "done"}

VersionErrors == {"CUDA 12.0 required", "CUDA 12.4 required for 8.9",
                  "CUDA 12.3 required for 9.0", "CUDA 12.8 required for 12.0"}

\* version < major.minor, on the two leading components
Below(v, major, minor) == v[1] < major \/ (v[1] = major /\ v[2] < minor)

\* the version rules of the table, as the specification states them
TooOld(v, caps) ==
    \/ Below(v, 12, 0)
    \/ (\E c \in caps : StartsWith(c, Cap89)) /\ Below(v, 12, 4)
    \/ (\E c \in caps : StartsWith(c, Cap90)) /\ Below(v, 12, 3)
    \/ (\E c \in caps : StartsWith(c, Cap120)) /\ Below(v, 12, 8)

ModuleNames == [i \in 1..Len(ext_modules) |-> ext_modules[i].name]

\* the flags NVCC_FLAGS holds before the loop of line 122
FlagsBeforeLoop == BaseNvccFlags \o <<AbiFlag(ABI)>>

\* the flags the loop of line 122 appended
FlagsOfLoop == SubSeq(NVCC_FLAGS, Len(FlagsBeforeLoop) + 1, Len(NVCC_FLAGS))

\* all the orders in which a set can be visited
Orders(S) == {o \in [1..Cardinality(S) -> S] : \A i, j \in DOMAIN o : o[i] = o[j] => i = j}

\* the outcome of the loop of lines 122-140 when the set is visited in order o
RECURSIVE LoopOutcome(_, _, _)
LoopOutcome(o, n, flags) ==
    IF Len(o) = 0 THEN [error |-> "none", flags |-> flags]
    ELSE LET n2 == ArchNum(o[1], n)
         IN IF n2 = Unbound THEN [error |-> "NameError", flags |-> flags]
            ELSE LoopOutcome(Tail(o), n2, flags \o CapabilityFlags(o[1], n2))

\* how many times flag f occurs in a flag list
Occurrences(flags, f) == Cardinality({i \in 1..Len(flags) : flags[i] = f})

(* -------------------------------- claims -------------------------------- *)
\* C1: exactly one strategy fires, by priority.  A supplied, non-empty
\* override contributes only its supported tokens and the device runtime is
\* never asked; without it and with devices, the set is exactly the
\* "major.minor" strings of the devices with major >= 8; without it and with
\* no device, the set is exactly SUPPORTED_ARCHS.
C1_StrategyByPriority ==
    Resolved =>
        /\ OverrideGiven =>
              /\ strategy = "override"
              /\ ~devices.queried
              /\ compute_capabilities = OverrideTokenSet \cap SUPPORTED_ARCHS
        /\ (~OverrideGiven /\ Len(devices.caps) > 0) =>
              /\ strategy = "devices"
              /\ compute_capabilities =
                     {FormatCapability(d) : d \in {e \in Range(devices.caps) : e[1] >= 8}}
        /\ (~OverrideGiven /\ Len(devices.caps) = 0) =>
              /\ strategy = "fallback"
              /\ devices.queried
              /\ compute_capabilities = SUPPORTED_ARCHS

\* C1 witness: an override whose tokens are all invalid was resolved: nothing
\* was taken from the devices or from the fallback set
C1_Witness ==
    /\ strategy = "override"
    /\ OverrideTokenSet # {}
    /\ compute_capabilities = {}
    /\ ~devices.queried

\* C2: every capability of the resolved set is one of SUPPORTED_ARCHS,
\* whichever strategy fired
C2_ResolvedSetSupported == compute_capabilities \subseteq SUPPORTED_ARCHS

\* C3 as stated: when device enumeration or the static fallback fired, the
\* resolved set is not empty and "No GPUs found" is not raised
C3_OnlyOverrideCanBeEmpty ==
    strategy \in {"devices", "fallback"} =>
        /\ compute_capabilities # {}
        /\ error # "No GPUs found"

\* C3 amended: "No GPUs found" is raised only on an empty resolved set, which
\* comes from an override with no valid token or from device enumeration with
\* every device below major 8; after the static fallback, or device
\* enumeration with a device of major >= 8, the set is not empty and the
\* error is not raised; no run gets past line 103 with an empty set.
C3_EmptySetSources ==
    /\ error = "No GPUs found" =>
          /\ compute_capabilities = {}
          /\ \/ strategy = "override" /\ OverrideTokenSet \cap SUPPORTED_ARCHS = {}
             \/ strategy = "devices" /\ \A d \in Range(devices.caps) : d[1] < 8
    /\ (strategy = "fallback"
        \/ (strategy = "devices" /\ \E d \in Range(devices.caps) : d[1] >= 8)) =>
          /\ compute_capabilities # {}
          /\ error # "No GPUs found"
    /\ (pc \in {"validate", "flags", "setup", "done"} \/ error \in VersionErrors
        \/ error = "NameError") => compute_capabilities # {}

\* C3 witness: device enumeration fired, every device was skipped and the
\* empty-set error was raised
C3_Witness ==
    /\ strategy = "devices"
    /\ error = "No GPUs found"
    /\ Len(devices.caps) > 0

\* C4: once the version checks ran on a non-empty set, a version error was
\* raised iff the version is below 12.0, or 8.9 is targeted below 12.4, or
\* 9.0 below 12.3, or 12.0 below 12.8; below 12.0 it is the global error.
C4_VersionRules ==
    (Validated \/ error \in VersionErrors) =>
        /\ compute_capabilities # {}
        /\ (error \in VersionErrors) <=> TooOld(nvcc_cuda_version, compute_capabilities)
        /\ Below(nvcc_cuda_version, 12, 0) => error = "CUDA 12.0 required"
        /\ error = "CUDA 12.4 required for 8.9" => Cap89 \in compute_capabilities
        /\ error = "CUDA 12.3 required for 9.0" => Cap90 \in compute_capabilities
        /\ error = "CUDA 12.8 required for 12.0" => Cap120 \in compute_capabilities

\* C4 witness: override "9.0" with toolkit 12.2 was rejected
C4_Witness ==
    /\ torch_cuda_arch_list = [present |-> TRUE, val |-> Cap90]
    /\ nvcc_cuda_version = <<12, 2>>
    /\ error = "CUDA 12.3 required for 9.0"

\* C5: the build plan is the subsequence of [_qattn_sm80, _qattn_sm89,
\* _qattn_sm90, _fused] with sm80 iff one of the five tiers is targeted, sm89
\* iff 8.9 or 12.0 is, sm90 iff 9.0 is, _fused always; only sm90 carries the
\* extra link argument; "8.0;8.6" with 12.5 gives [sm80, fused] and the
\* fallback with 12.8 all four.
C5_BuildPlan ==
    Planned =>
        LET caps == compute_capabilities
            wanted == [A |-> caps \cap SUPPORTED_ARCHS # {},
                       B |-> Cap89 \in caps \/ Cap120 \in caps,
                       C |-> Cap90 \in caps]
            plan == (IF wanted.A THEN <<"sageattention._qattn_sm80">> ELSE <<>>)
                    \o (IF wanted.B THEN <<"sageattention._qattn_sm89">> ELSE <<>>)
                    \o (IF wanted.C THEN <<"sageattention._qattn_sm90">> ELSE <<>>)
                    \o <<"sageattention._fused">>
        IN /\ ModuleNames = plan
           /\ \A i \in 1..Len(ext_modules) :
                 ext_modules[i].extra_link_args =
                     (IF ext_modules[i].name = "sageattention._qattn_sm90"
                      THEN <<"-lcuda">> ELSE <<>>)
           /\ (torch_cuda_arch_list.val = Cap80 \o <<";">> \o Cap86
               /\ nvcc_cuda_version = <<12, 5>>) =>
                 ModuleNames = <<"sageattention._qattn_sm80", "sageattention._fused">>
           /\ (strategy = "fallback" /\ nvcc_cuda_version = <<12, 8>>) =>
                 Len(ModuleNames) = 4

\* C5 witness: no override, no device, toolkit 12.8: all four modules were
\* handed to setup
C5_Witness ==
    /\ pc = "done"
    /\ strategy = "fallback"
    /\ nvcc_cuda_version = <<12, 8>>
    /\ Len(setup_call.ext_modules) = 4
    /\ setup_call.ext_modules[2].name = "sageattention._qattn_sm89"

\* C6: an override token "9.0+PTX" is accepted into the resolved set, and the
\* flags of the build plan then hold the arch=compute_X,code=compute_X pair
C6_PtxTokenAccepted ==
    (strategy = "override" /\ (Cap90 \o PTXSuffix) \in OverrideTokenSet) =>
        /\ (Cap90 \o PTXSuffix) \in compute_capabilities
        /\ Planned => \E i \in 1..Len(NVCC_FLAGS) :
                         NVCC_FLAGS[i] = GencodePtx(ArchNum(Cap90, Unbound))[2]

\* C7: the outcome of the flag loop is a function of the capability set: in
\* whatever order the set is visited, the loop ends the same way with the
\* same flag list as the run at hand
C7_OrderIndependent ==
    (Planned \/ error = "NameError") =>
        \A o \in Orders(compute_capabilities) :
            LoopOutcome(o, Unbound, FlagsBeforeLoop) =
                [error |-> error, flags |-> NVCC_FLAGS]

\* the stages of the script, in the order they run
StageRank(p) ==
    CASE p = "import" -> 0 [] p = "cuda_home" -> 1 [] p = "environ" -> 2
      [] p = "select" -> 3 [] p = "devices" -> 4 [] p = "probe" -> 5
      [] p = "check_empty" -> 6 [] p = "validate" -> 7 [] p = "flags" -> 8
      [] p = "setup" -> 9 [] p = "done" -> 10 [] p = "failed" -> 11

\* the state part of C8
C8_Ordering ==
    /\ setup_call.called =>
          /\ pc = "done" /\ error = "none"
          /\ CUDA_HOME # "None"
          /\ nvcc_cuda_version # <<>>
          /\ compute_capabilities # {}
          /\ ~TooOld(nvcc_cuda_version, compute_capabilities)
          /\ setup_call.ext_modules = ext_modules
    /\ ext_modules # <<>> => error = "none" /\ CUDA_HOME # "None"
    /\ error # "none" =>
          /\ pc = "failed"
          /\ ext_modules = <<>>
          /\ ~setup_call.called
    /\ CUDA_HOME = "None" => pc \in {"cuda_home", "failed"} /\ strategy = "none"
    /\ error \in ({"CalledProcessError", "ValueError", "IndexError", "InvalidVersion",
                   "No GPUs found"} \cup VersionErrors) =>
          /\ NVCC_FLAGS = FlagsBeforeLoop
          /\ ~(HAS_SM80 \/ HAS_SM86 \/ HAS_SM89 \/ HAS_SM90 \/ HAS_SM120)

\* C8: setup() receives the plan only after CUDA_HOME was found, the version
\* parsed, the set found non-empty and every version rule passed; once a
\* fatal error is raised the run has ended with no module built and nothing
\* handed over, the later stages untouched; and no stage is run again: every
\* step moves to a later stage, or to the next capability of the flag loop.
C8_FailFast ==
    /\ []C8_Ordering
    /\ [][\/ StageRank(pc') > StageRank(pc)
          \/ pc = "flags" /\ pc' = "flags" /\ pending' \subseteq pending
                          /\ pending' # pending]_vars

\* C8 witness: a version rule failed after the set was resolved; nothing was
\* built or handed over
C8_Witness ==
    /\ error = "CUDA 12.8 required for 12.0"
    /\ compute_capabilities # {}
    /\ ext_modules = <<>>
    /\ ~setup_call.called

\* the architecture codes of C9
C9_Code(c) == IF c = Cap80 THEN "80" ELSE IF c = Cap86 THEN "86"
              ELSE IF c = Cap89 THEN "89" ELSE IF c = Cap90 THEN "90a" ELSE "120a"

\* C9: in the flags of a build plan, 8.0 / 8.6 / 8.9 are emitted as 80 / 86 /
\* 89 and both 9.0 and 12.0 with the "a" suffix: 90a and 120a
C9_ArchCodes ==
    Planned =>
        \A c \in compute_capabilities \cap SUPPORTED_ARCHS :
            \E i \in 1..Len(NVCC_FLAGS) :
                NVCC_FLAGS[i] = <<"arch=compute_", C9_Code(c), ",code=sm_", C9_Code(c)>>

\* C10: the loop never reads num unassigned, and the flags of a build plan
\* hold exactly one arch=compute_X,code=sm_X pair per resolved capability,
\* X being the code the if/elif chain gives that capability
C10_OnePairPerCapability ==
    /\ error # "NameError"
    /\ Planned =>
          /\ Len(FlagsOfLoop) = 2 * Cardinality(compute_capabilities)
          /\ \A c \in compute_capabilities :
                /\ ArchNum(c, Unbound) # Unbound
                /\ Occurrences(FlagsOfLoop, GencodeSm(ArchNum(c, Unbound))[2]) = 1

====
